---- MODULE Spec2Model ----
(***************************************************************************)
(* Model of the Hearthlink service supervisor (src-tauri/src/main.rs):     *)
(* ServiceManager with its Process Registry (processes), Status Table      *)
(* (services), shutdown guard flag, the health monitoring task, the        *)
(* restart paths and the shutdown sequence.                                *)
(*                                                                         *)
(* Every critical section of the code (a block that takes a Mutex and      *)
(* releases it without suspending) is one atomic action.  The registry     *)
(* lock, which the stop paths keep while they go on to take the status     *)
(* lock, is modelled explicitly by procLock.                               *)
(***************************************************************************)
EXTENDS Integers, Sequences, FiniteSets, TLC

\* ------------------------------------------------------------------ bounds
MaxTime     == 2    \* seconds the clock advances
MaxCycles   == 2    \* monitoring cycles
MaxCalls    == 2    \* calls of restart_service_with_backoff
MaxCommands == 1    \* invocations of the restart_service command
MaxOverlap  == 6    \* restart_service_with_backoff calls that overlapped on one role
MaxHealCalls == 1   \* restart_service_with_backoff calls made for an unhealthy role
MaxWarmCycles == 13 \* monitoring cycles when the warm-up is followed to its end

\* --------------------------------------------------------------- constants
Roles == {"alden", "vault", "core", "synapse"}
Names == Roles \cup {"bogus"}            \* a service_name argument outside the closed set
Profiles == {"Default", "Qa", "Dev"}

None == -1                               \* Option::None of the numeric Option fields
NoMsg == "none"                          \* Option::None of error_message

GracePolls == 15                         \* try_wait polls of graceful_stop_service_enhanced
MaxRestartAttempts == 5
MaxBackoff == 30
InitialBackoff == 1
StartupInterval == 5
SteadyInterval == 30
StartupDuration == 60

\* PortProfile::get_ports: (core, vault, synapse, alden)
GetPorts(profile) ==
    CASE profile = "Default" -> [core |-> 8000, vault |-> 8001, synapse |-> 8002, alden |-> 8888]
      [] profile = "Qa"      -> [core |-> 8010, vault |-> 8011, synapse |-> 8012, alden |-> 8898]
      [] profile = "Dev"     -> [core |-> 8020, vault |-> 8021, synapse |-> 8022, alden |-> 8908]

\* format!("http://127.0.0.1:{}/health", port)
HealthUrl(port) == [host |-> "127.0.0.1", port |-> port, path |-> "/health"]

\* the table with the core and vault ports taken in the order of the get_ports tuple
ServicesTable_PortsSwapped(profile) ==
    LET p == GetPorts(profile) IN
    << [name |-> "alden",   port |-> p.alden,   url |-> HealthUrl(p.alden)],
       [name |-> "vault",   port |-> p.core,    url |-> HealthUrl(p.core)],
       [name |-> "core",    port |-> p.vault,   url |-> HealthUrl(p.vault)],
       [name |-> "synapse", port |-> p.synapse, url |-> HealthUrl(p.synapse)] >>

\* the `services` vector of start_all_services, in launch order
ServicesTable(profile) ==
    LET p == GetPorts(profile) IN
    << [name |-> "alden",   port |-> p.alden,   url |-> HealthUrl(p.alden)],
       [name |-> "vault",   port |-> p.vault,   url |-> HealthUrl(p.vault)],
       [name |-> "core",    port |-> p.core,    url |-> HealthUrl(p.core)],
       [name |-> "synapse", port |-> p.synapse, url |-> HealthUrl(p.synapse)] >>

\* the `match service_name` tables of the two restart paths
ServiceConfig(profile, name) ==
    LET p == GetPorts(profile) IN
    CASE name = "alden"   -> [port |-> p.alden,   url |-> HealthUrl(p.alden)]
      [] name = "vault"   -> [port |-> p.vault,   url |-> HealthUrl(p.vault)]
      [] name = "core"    -> [port |-> p.core,    url |-> HealthUrl(p.core)]
      [] name = "synapse" -> [port |-> p.synapse, url |-> HealthUrl(p.synapse)]

\* the launch order used for the shutdown
ShutdownOrder_LaunchOrder == << "alden", "vault", "core", "synapse" >>

\* shutdown_order of stop_all_services
ShutdownOrder == << "synapse", "core", "vault", "alden" >>

\* ------------------------------------------------------------------ threads
Starter      == "starter"                 \* the setup hook calling start_all_services
Stoppers     == {"stop1", "stop2"}        \* callers of stop_all_services
Operators    == {"op1"}                   \* invocations of the restart_service command
Coordinators == {"rc1"}                   \* callers of restart_service_with_backoff
Threads      == {Starter} \cup Stoppers \cup Operators \cup Coordinators

VARIABLES
    port_profile,           \* ServiceManager.port_profile
    processes,              \* ServiceManager.processes: role -> pid of the Child it holds
    services,               \* ServiceManager.services:  role -> ServiceStatus
    shutdown_in_progress,   \* ServiceManager.shutdown_in_progress
    procLock,               \* holder of the processes Mutex, or "free"
    pc, arg, cmd, idx, ret, \* per thread: position, service_name, spawned Child, loop index, result
    monitors,               \* number of health monitoring tasks spawned
    mon,                    \* locals of the health monitoring task
    cycles,                 \* completed monitoring cycles
    now,                    \* SystemTime::now() in seconds
    nextPid,                \* pid the next spawn gets
    alive,                  \* pids of spawned processes that were not terminated
    calls,                  \* calls of restart_service_with_backoff made so far
    commands,               \* restart_service commands invoked so far
    stopLog,                \* termination requests issued by stop_all_services, in order
    regAtStop,              \* the registry when the shutdown flag was set
    scheduled,              \* roles for which the monitor printed "scheduling restart"
    busy,                   \* roles whose port could not be bound at the pre-flight check
    restarts,               \* role -> relaunches by restart_service_with_backoff since
                            \*         the role's last successful probe
    svcLock,                \* holder of the services Mutex, or "free"
    polls                   \* per thread: try_wait polls made on the Child being stopped

vars == << port_profile, processes, services, shutdown_in_progress, procLock,
           pc, arg, cmd, idx, ret, monitors, mon, cycles, now, nextPid, alive,
           calls, commands, stopLog, regAtStop, scheduled, busy, restarts, svcLock,
           polls >>

\* ------------------------------------------------------------------ helpers
\* a call's result: kind is "ok" or "err", msg the text of the Err (or of the
\* Ok(String) of the command), name and port what the text names, log the
\* branch the call reported on the console
NoRet == [kind |-> "none", msg |-> "", name |-> "", port |-> 0, log |-> ""]
Ret(kind, msg, name, port, log) ==
    [kind |-> kind, msg |-> msg, name |-> name, port |-> port, log |-> log]

\* the ServiceStatus literal of start_service
NewStatus(name, port, url, pid, t) ==
    [ name |-> name, status |-> "starting", port |-> port, pid |-> pid,
      started_at |-> t, health_check_url |-> url, last_health_check |-> None,
      error_message |-> NoMsg, restart_count |-> 0, last_restart |-> None,
      restart_backoff |-> InitialBackoff ]

\* HashMap::insert
MapInsert(m, k, v) == [x \in DOMAIN m \cup {k} |-> IF x = k THEN v ELSE m[x]]
\* HashMap::remove
MapRemove(m, k) == [x \in DOMAIN m \ {k} |-> m[x]]

Min(a, b) == IF a < b THEN a ELSE b

MonIdle == [pc |-> "off", startup_phase |-> TRUE, startup_elapsed |-> 0,
            names |-> {}, name |-> "", url |-> << >>, result |-> "",
            probed |-> None]

Init ==
    /\ port_profile \in Profiles
    /\ processes = << >>
    /\ services = << >>
    /\ shutdown_in_progress = FALSE
    /\ procLock = "free"
    /\ pc = [t \in Threads |-> "idle"]
    /\ arg = [t \in Threads |-> ""]
    /\ cmd = [t \in Threads |-> None]
    /\ idx = [t \in Threads |-> 0]
    /\ ret = [t \in Threads |-> NoRet]
    /\ monitors = 0
    /\ mon = MonIdle
    /\ cycles = 0
    /\ now = 0
    /\ nextPid = 1
    /\ alive = {}
    /\ calls = 0
    /\ commands = 0
    /\ stopLog = << >>
    /\ regAtStop = << >>
    /\ scheduled = {}
    /\ busy = {}
    /\ svcLock = "free"
    /\ polls = [t \in Threads |-> 0]
    /\ restarts = [r \in Roles |-> 0]

\* ------------------------------------------------------------ start_service
\* the (port, health_url) arguments start_service is called with
Cfg(t) ==
    IF t = Starter THEN ServicesTable(port_profile)[idx[t]]
    ELSE ServiceConfig(port_profile, arg[t])

\* main(): the setup hook runs start_all_services to completion before the
\* event loop delivers window events or commands
StartupReturned == pc[Starter] \in {"done", "failed"}

\* check_port_availability: first service, in table order, whose port cannot be bound
FirstBusy(profile, b) ==
    LET tab == ServicesTable(profile)
        i == CHOOSE k \in 1..Len(tab) :
                /\ tab[k].name \in b
                /\ \A j \in 1..(k - 1) : tab[j].name \notin b
    IN tab[i]

\* a pre-flight check that stops looking after the first service
PortCheckFails_FirstOnly(b) == "alden" \in b

\* check_port_availability returns Err: some port of the table cannot be bound
PortCheckFails(b) == b # {}

\* start_all_services up to the first start_service call; b is the set of roles
\* whose port another process holds
StartAll_Begin ==
    /\ pc[Starter] = "idle"
    /\ \E b \in SUBSET Roles :
       /\ busy' = b
       /\ IF PortCheckFails(b)
         THEN /\ ret' = [ret EXCEPT ![Starter] =
                    Ret("err", "Port unavailable", FirstBusy(port_profile, b).name,
                        FirstBusy(port_profile, b).port, "")]
              /\ pc' = [pc EXCEPT ![Starter] = "failed"]
              /\ UNCHANGED << idx, arg >>
         ELSE /\ pc' = [pc EXCEPT ![Starter] = "spawn"]
              /\ idx' = [idx EXCEPT ![Starter] = 1]
              /\ arg' = [arg EXCEPT ![Starter] = ServicesTable(port_profile)[1].name]
              /\ ret' = ret
    /\ UNCHANGED << port_profile, polls, svcLock, processes, services, shutdown_in_progress, procLock,
                    cmd, monitors, mon, cycles, now, nextPid, alive, calls, stopLog,
                    regAtStop, scheduled, restarts, commands >>

\* start_service whose error start_all_services does not propagate: the loop
\* goes on as if the worker had been spawned
StartService_Spawn_ErrorIgnored(t) ==
    /\ pc[t] = "spawn"
    /\ \E outcome \in {"ok", "Python 3.x not found", "Python script not found",
                       "Failed to start service"} :
         IF outcome = "ok"
         THEN /\ cmd' = [cmd EXCEPT ![t] = nextPid]
              /\ nextPid' = nextPid + 1
              /\ alive' = alive \cup {nextPid}
              /\ pc' = [pc EXCEPT ![t] = "store"]
              /\ UNCHANGED ret
         ELSE /\ ret' = [ret EXCEPT ![t] = Ret("err", outcome, arg[t], 0,
                            IF t \in Coordinators THEN "Failed to restart" ELSE "")]
              /\ pc' = [pc EXCEPT ![t] = IF t = Starter THEN "status" ELSE "idle"]
              /\ UNCHANGED << cmd, nextPid, alive >>
    /\ UNCHANGED << port_profile, polls, svcLock, processes, services, shutdown_in_progress, procLock,
                    arg, idx, monitors, mon, cycles, now, calls, stopLog, regAtStop,
                    scheduled, busy, restarts, commands >>

\* start_service, lines 203-229: find_python_executable, the script check, spawn
StartService_Spawn(t) ==
    /\ pc[t] = "spawn"
    /\ \E outcome \in {"ok", "Python 3.x not found", "Python script not found",
                       "Failed to start service"} :
         IF outcome = "ok"
         THEN /\ cmd' = [cmd EXCEPT ![t] = nextPid]
              /\ nextPid' = nextPid + 1
              /\ alive' = alive \cup {nextPid}
              /\ pc' = [pc EXCEPT ![t] = "store"]
              /\ UNCHANGED ret
         ELSE /\ ret' = [ret EXCEPT ![t] = Ret("err", outcome, arg[t], 0,
                            IF t \in Coordinators THEN "Failed to restart" ELSE "")]
              /\ pc' = [pc EXCEPT ![t] = IF t = Starter THEN "failed" ELSE "idle"]
              /\ UNCHANGED << cmd, nextPid, alive >>
    /\ UNCHANGED << port_profile, polls, svcLock, processes, services, shutdown_in_progress, procLock,
                    arg, idx, monitors, mon, cycles, now, calls, stopLog, regAtStop,
                    scheduled, busy, restarts, commands >>

\* start_service, lines 231-235: processes.insert(name, cmd); a Child already
\* stored under the name is dropped without being killed
StartService_Store(t) ==
    /\ pc[t] = "store"
    /\ procLock = "free"
    /\ processes' = MapInsert(processes, arg[t], cmd[t])
    /\ pc' = [pc EXCEPT ![t] = "status"]
    /\ UNCHANGED << port_profile, polls, svcLock, services, shutdown_in_progress, procLock, arg, cmd, idx,
                    ret, monitors, mon, cycles, now, nextPid, alive, calls, stopLog,
                    regAtStop, scheduled, busy, restarts, commands >>

\* start_service that spawns a monitoring task for every worker it launches
StartService_Status_StartsMonitor(t) ==
    /\ pc[t] = "status"
    /\ svcLock = "free"
    /\ services' = MapInsert(services, arg[t],
                      NewStatus(arg[t], Cfg(t).port, Cfg(t).url, cmd[t], now))
    /\ cmd' = [cmd EXCEPT ![t] = None]
    /\ monitors' = monitors + 1
    /\ IF t = Starter
       THEN IF idx[t] < Len(ServicesTable(port_profile))
            THEN /\ idx' = [idx EXCEPT ![t] = idx[t] + 1]
                 /\ arg' = [arg EXCEPT ![t] = ServicesTable(port_profile)[idx[t] + 1].name]
                 /\ pc' = [pc EXCEPT ![t] = "spawn"]
                 /\ ret' = ret
            ELSE /\ pc' = [pc EXCEPT ![t] = "monitor"]
                 /\ UNCHANGED << idx, arg, ret >>
       ELSE IF t \in Operators
       THEN /\ pc' = [pc EXCEPT ![t] = "idle"]
            /\ ret' = [ret EXCEPT ![t] = Ret("ok", "service restarted successfully",
                                             arg[t], 0, "")]
            /\ UNCHANGED << idx, arg >>
       ELSE /\ pc' = [pc EXCEPT ![t] = "stats"]
            /\ UNCHANGED << idx, arg, ret >>
    /\ UNCHANGED << port_profile, polls, svcLock, processes, shutdown_in_progress, procLock, mon,
                    cycles, now, nextPid, alive, calls, stopLog, regAtStop, scheduled, busy, restarts, commands >>

\* start_service, lines 237-263: services.insert(name, status) and return to the caller
StartService_Status(t) ==
    /\ pc[t] = "status"
    /\ svcLock = "free"
    /\ services' = MapInsert(services, arg[t],
                      NewStatus(arg[t], Cfg(t).port, Cfg(t).url, cmd[t], now))
    /\ cmd' = [cmd EXCEPT ![t] = None]
    /\ IF t = Starter
       THEN IF idx[t] < Len(ServicesTable(port_profile))
            THEN /\ idx' = [idx EXCEPT ![t] = idx[t] + 1]
                 /\ arg' = [arg EXCEPT ![t] = ServicesTable(port_profile)[idx[t] + 1].name]
                 /\ pc' = [pc EXCEPT ![t] = "spawn"]
                 /\ ret' = ret
            ELSE /\ pc' = [pc EXCEPT ![t] = "monitor"]
                 /\ UNCHANGED << idx, arg, ret >>
       ELSE IF t \in Operators
       THEN /\ pc' = [pc EXCEPT ![t] = "idle"]
            /\ ret' = [ret EXCEPT ![t] = Ret("ok", "service restarted successfully",
                                             arg[t], 0, "")]
            /\ UNCHANGED << idx, arg >>
       ELSE /\ pc' = [pc EXCEPT ![t] = "stats"]
            /\ UNCHANGED << idx, arg, ret >>
    /\ UNCHANGED << port_profile, polls, svcLock, processes, shutdown_in_progress, procLock, monitors, mon,
                    cycles, now, nextPid, alive, calls, stopLog, regAtStop, scheduled, busy, restarts, commands >>

\* start_all_services, lines 189-192: start_health_monitoring(), Ok(())
StartAll_Monitor ==
    /\ pc[Starter] = "monitor"
    /\ monitors' = monitors + 1
    /\ mon' = [MonIdle EXCEPT !.pc = "sleep"]
    /\ ret' = [ret EXCEPT ![Starter] = Ret("ok", "", "", 0, "")]
    /\ pc' = [pc EXCEPT ![Starter] = "done"]
    /\ UNCHANGED << port_profile, polls, svcLock, processes, services, shutdown_in_progress, procLock,
                    arg, cmd, idx, cycles, now, nextPid, alive, calls, stopLog, regAtStop,
                    scheduled, busy, restarts, commands >>

\* ------------------------------------------------------- stop_all_services
\* Child::kill then the wait for exit: the process is terminated and reaped
Terminate(live, pid) == live \ {pid}

\* the stop paths' status update without the reset of the process id
Stopped_KeepsPid(st) == [st EXCEPT !.status = "stopped"]

\* a role's record after the stop paths' status update
Stopped(st) == [st EXCEPT !.status = "stopped", !.pid = None]

\* stop_all_services without the test of the guard flag
StopAll_Enter_NoGuard(t) ==
    /\ pc[t] = "idle"
    /\ StartupReturned
    /\ shutdown_in_progress' = TRUE
    /\ pc' = [pc EXCEPT ![t] = "graceful"]
    /\ idx' = [idx EXCEPT ![t] = 1]
    /\ arg' = [arg EXCEPT ![t] = ShutdownOrder[1]]
    /\ regAtStop' = processes
    /\ UNCHANGED << port_profile, polls, svcLock, processes, services, procLock, cmd, ret, monitors, mon,
                    cycles, now, nextPid, alive, calls, commands, stopLog, scheduled,
                    busy, restarts >>

\* stop_all_services, lines 500-513: the guard flag
StopAll_Enter(t) ==
    /\ pc[t] = "idle"
    /\ StartupReturned
    /\ IF shutdown_in_progress
       THEN /\ ret' = [ret EXCEPT ![t] = Ret("ok", "", "", 0, "Shutdown already in progress")]
            /\ pc' = [pc EXCEPT ![t] = "done"]
            /\ UNCHANGED << shutdown_in_progress, idx, arg, regAtStop >>
       ELSE /\ shutdown_in_progress' = TRUE
            /\ pc' = [pc EXCEPT ![t] = "graceful"]
            /\ idx' = [idx EXCEPT ![t] = 1]
            /\ arg' = [arg EXCEPT ![t] = ShutdownOrder[1]]
            /\ regAtStop' = processes
            /\ ret' = ret
    /\ UNCHANGED << port_profile, polls, svcLock, processes, services, procLock, cmd, monitors, mon,
                    cycles, now, nextPid, alive, calls, stopLog, scheduled, busy, restarts, commands >>

\* graceful_stop_service_enhanced, lines 546-588: under the registry lock,
\* remove the handle, kill, poll try_wait up to 15 times, force kill and reap
GracefulStopEnhanced_Kill(t) ==
    /\ pc[t] = "graceful"
    /\ procLock = "free"
    /\ procLock' = t
    /\ IF arg[t] \in DOMAIN processes
       THEN /\ processes' = MapRemove(processes, arg[t])
            /\ stopLog' = Append(stopLog, [name |-> arg[t], pid |-> processes[arg[t]],
                                           step |-> "ordered"])
            /\ alive' = Terminate(alive, processes[arg[t]])
       ELSE UNCHANGED << processes, stopLog, alive >>
    /\ pc' = [pc EXCEPT ![t] = "graceful_status"]
    /\ UNCHANGED << port_profile, polls, svcLock, services, shutdown_in_progress, arg, cmd, idx, ret,
                    monitors, mon, cycles, now, nextPid, calls, regAtStop, scheduled, busy, restarts, commands >>

\* the status update of graceful_stop_service_enhanced that removes the role's
\* record instead of marking it stopped
GracefulStopEnhanced_Status_DropsRecord(t) ==
    /\ pc[t] = "graceful_status"
    /\ svcLock = "free"
    /\ services' = MapRemove(services, arg[t])
    /\ procLock' = "free"
    /\ IF idx[t] < Len(ShutdownOrder)
       THEN /\ idx' = [idx EXCEPT ![t] = idx[t] + 1]
            /\ arg' = [arg EXCEPT ![t] = ShutdownOrder[idx[t] + 1]]
            /\ pc' = [pc EXCEPT ![t] = "graceful"]
       ELSE /\ idx' = [idx EXCEPT ![t] = 0]
            /\ arg' = [arg EXCEPT ![t] = ""]
            /\ pc' = [pc EXCEPT ![t] = "sweep"]
    /\ UNCHANGED << port_profile, polls, svcLock, processes, shutdown_in_progress, cmd, ret, monitors,
                    mon, cycles, now, nextPid, alive, calls, stopLog, regAtStop, scheduled, busy, restarts, commands >>

\* graceful_stop_service_enhanced, lines 590-596: the status update, made while
\* the registry lock is still held; both locks are released on return
GracefulStopEnhanced_Status(t) ==
    /\ pc[t] = "graceful_status"
    /\ svcLock = "free"
    /\ services' = [r \in DOMAIN services |->
                       IF r = arg[t] THEN Stopped(services[r]) ELSE services[r]]
    /\ procLock' = "free"
    /\ IF idx[t] < Len(ShutdownOrder)
       THEN /\ idx' = [idx EXCEPT ![t] = idx[t] + 1]
            /\ arg' = [arg EXCEPT ![t] = ShutdownOrder[idx[t] + 1]]
            /\ pc' = [pc EXCEPT ![t] = "graceful"]
       ELSE /\ idx' = [idx EXCEPT ![t] = 0]
            /\ arg' = [arg EXCEPT ![t] = ""]
            /\ pc' = [pc EXCEPT ![t] = "sweep"]
    /\ UNCHANGED << port_profile, polls, svcLock, processes, shutdown_in_progress, cmd, ret, monitors,
                    mon, cycles, now, nextPid, alive, calls, stopLog, regAtStop, scheduled, busy, restarts, commands >>

\* stop_all_services without the drain of the registry: the lock is taken and
\* the handles that are left stay where they are
StopAll_Sweep_NoDrain(t) ==
    /\ pc[t] = "sweep"
    /\ procLock \in {"free", t}
    /\ procLock' = t
    /\ pc' = [pc EXCEPT ![t] = "final"]
    /\ UNCHANGED << port_profile, polls, svcLock, processes, services, shutdown_in_progress, arg, cmd,
                    idx, ret, monitors, mon, cycles, now, nextPid, alive, calls, stopLog,
                    regAtStop, scheduled, busy, restarts, commands >>

\* stop_all_services, lines 519-530: processes.drain() under the registry lock,
\* one entry per step, in the map's (arbitrary) iteration order
StopAll_Sweep(t) ==
    /\ pc[t] = "sweep"
    /\ procLock \in {"free", t}
    /\ procLock' = t
    /\ IF DOMAIN processes # {}
       THEN /\ \E n \in DOMAIN processes :
                 /\ processes' = MapRemove(processes, n)
                 /\ stopLog' = Append(stopLog, [name |-> n, pid |-> processes[n],
                                                step |-> "sweep"])
                 /\ alive' = Terminate(alive, processes[n])
            /\ pc' = pc
       ELSE /\ pc' = [pc EXCEPT ![t] = "final"]
            /\ UNCHANGED << processes, stopLog, alive >>
    /\ UNCHANGED << port_profile, polls, svcLock, services, shutdown_in_progress, arg, cmd, idx, ret,
                    monitors, mon, cycles, now, nextPid, calls, regAtStop, scheduled, busy, restarts, commands >>

\* stop_all_services that resets the guard flag when it is done
StopAll_Final_ClearsFlag(t) ==
    /\ pc[t] = "final"
    /\ svcLock = "free"
    /\ services' = [r \in DOMAIN services |-> Stopped(services[r])]
    /\ procLock' = "free"
    /\ shutdown_in_progress' = FALSE
    /\ ret' = [ret EXCEPT ![t] = Ret("ok", "", "", 0, "Enhanced shutdown sequence completed")]
    /\ pc' = [pc EXCEPT ![t] = "done"]
    /\ UNCHANGED << port_profile, polls, svcLock, processes, arg, cmd, idx,
                    monitors, mon, cycles, now, nextPid, alive, calls, stopLog,
                    regAtStop, scheduled, busy, restarts, commands >>

\* stop_all_services, lines 532-543: every status record to stopped, return
StopAll_Final(t) ==
    /\ pc[t] = "final"
    /\ svcLock = "free"
    /\ services' = [r \in DOMAIN services |-> Stopped(services[r])]
    /\ procLock' = "free"
    /\ ret' = [ret EXCEPT ![t] = Ret("ok", "", "", 0, "Enhanced shutdown sequence completed")]
    /\ pc' = [pc EXCEPT ![t] = "done"]
    /\ UNCHANGED << port_profile, polls, svcLock, processes, shutdown_in_progress, arg, cmd, idx,
                    monitors, mon, cycles, now, nextPid, alive, calls, stopLog,
                    regAtStop, scheduled, busy, restarts, commands >>

\* ------------------------------- stop_all_services, one step per lock and wait
\* The same lines as above in finer steps: every acquisition of a lock and
\* every wait is a step of its own, so that what a thread holds while it waits
\* is part of the state.

\* the status table locked together with the registry, before the wait
GracefulStopEnhanced_Remove_LocksStatus(t) ==
    /\ pc[t] = "graceful"
    /\ procLock = "free"
    /\ svcLock = "free"
    /\ procLock' = t
    /\ svcLock' = t
    /\ IF arg[t] \in DOMAIN processes
       THEN /\ processes' = MapRemove(processes, arg[t])
            /\ stopLog' = Append(stopLog, [name |-> arg[t], pid |-> processes[arg[t]],
                                           step |-> "ordered"])
            /\ cmd' = [cmd EXCEPT ![t] = processes[arg[t]]]
            /\ polls' = [polls EXCEPT ![t] = 0]
            /\ pc' = [pc EXCEPT ![t] = "gse_poll"]
       ELSE /\ pc' = [pc EXCEPT ![t] = "gse_lock"]
            /\ UNCHANGED << processes, stopLog, cmd, polls >>
    /\ UNCHANGED << port_profile, services, shutdown_in_progress, arg, idx, ret,
                    monitors, mon, cycles, now, nextPid, alive, calls, regAtStop,
                    scheduled, busy, restarts, commands >>

\* graceful_stop_service_enhanced, lines 546-554: lock the registry, remove the
\* handle, send the kill; the Child moves into the waiting thread
GracefulStopEnhanced_Remove(t) ==
    /\ pc[t] = "graceful"
    /\ procLock = "free"
    /\ procLock' = t
    /\ IF arg[t] \in DOMAIN processes
       THEN /\ processes' = MapRemove(processes, arg[t])
            /\ stopLog' = Append(stopLog, [name |-> arg[t], pid |-> processes[arg[t]],
                                           step |-> "ordered"])
            /\ cmd' = [cmd EXCEPT ![t] = processes[arg[t]]]
            /\ polls' = [polls EXCEPT ![t] = 0]
            /\ pc' = [pc EXCEPT ![t] = "gse_poll"]
       ELSE /\ pc' = [pc EXCEPT ![t] = "gse_lock"]
            /\ UNCHANGED << processes, stopLog, cmd, polls >>
    /\ UNCHANGED << port_profile, svcLock, services, shutdown_in_progress, arg, idx, ret,
                    monitors, mon, cycles, now, nextPid, alive, calls, regAtStop,
                    scheduled, busy, restarts, commands >>

\* the loop without its bound of fifteen rounds
GracefulStopEnhanced_Poll_ExtraRound(t) ==
    /\ pc[t] = "gse_poll"
    /\ polls[t] < GracePolls + 1
    /\ polls' = [polls EXCEPT ![t] = polls[t] + 1]
    /\ \/ /\ alive' = Terminate(alive, cmd[t])
          /\ pc' = [pc EXCEPT ![t] = "gse_lock"]
       \/ UNCHANGED << alive, pc >>
    /\ UNCHANGED << port_profile, svcLock, processes, services, shutdown_in_progress,
                    procLock, arg, cmd, idx, ret, monitors, mon, cycles, now, nextPid,
                    calls, stopLog, regAtStop, scheduled, busy, restarts, commands >>

\* lines 558-571: one round of `for i in 0..15`: try_wait finds the process
\* exited and reaps it, or finds it running and sleeps a second
GracefulStopEnhanced_Poll(t) ==
    /\ pc[t] = "gse_poll"
    /\ polls[t] < GracePolls
    /\ polls' = [polls EXCEPT ![t] = polls[t] + 1]
    /\ \/ /\ alive' = Terminate(alive, cmd[t])
          /\ pc' = [pc EXCEPT ![t] = "gse_lock"]
       \/ UNCHANGED << alive, pc >>
    /\ UNCHANGED << port_profile, svcLock, processes, services, shutdown_in_progress,
                    procLock, arg, cmd, idx, ret, monitors, mon, cycles, now, nextPid,
                    calls, stopLog, regAtStop, scheduled, busy, restarts, commands >>

\* lines 566-569 and 574-578: after the fifteenth round, or when try_wait
\* fails, kill and wait
GracefulStopEnhanced_Force(t) ==
    /\ pc[t] = "gse_poll"
    /\ \E tryWaitFailed \in BOOLEAN : polls[t] = GracePolls \/ tryWaitFailed
    /\ alive' = Terminate(alive, cmd[t])
    /\ pc' = [pc EXCEPT ![t] = "gse_lock"]
    /\ UNCHANGED << port_profile, polls, svcLock, processes, services,
                    shutdown_in_progress, procLock, arg, cmd, idx, ret, monitors, mon,
                    cycles, now, nextPid, calls, stopLog, regAtStop, scheduled, busy,
                    restarts, commands >>

\* line 590: lock the status table, the registry lock still held
GracefulStopEnhanced_Lock(t) ==
    /\ pc[t] = "gse_lock"
    /\ svcLock = "free"
    /\ svcLock' = t
    /\ pc' = [pc EXCEPT ![t] = "gse_status"]
    /\ UNCHANGED << port_profile, polls, processes, services, shutdown_in_progress,
                    procLock, arg, cmd, idx, ret, monitors, mon, cycles, now, nextPid,
                    alive, calls, stopLog, regAtStop, scheduled, busy, restarts, commands >>

\* lines 591-596: the status update and the return, which releases both locks
GracefulStopEnhanced_Write(t) ==
    /\ pc[t] = "gse_status"
    /\ services' = [r \in DOMAIN services |->
                       IF r = arg[t] THEN Stopped(services[r]) ELSE services[r]]
    /\ procLock' = "free"
    /\ svcLock' = "free"
    /\ cmd' = [cmd EXCEPT ![t] = None]
    /\ polls' = [polls EXCEPT ![t] = 0]
    /\ IF idx[t] < Len(ShutdownOrder)
       THEN /\ idx' = [idx EXCEPT ![t] = idx[t] + 1]
            /\ arg' = [arg EXCEPT ![t] = ShutdownOrder[idx[t] + 1]]
            /\ pc' = [pc EXCEPT ![t] = "graceful"]
       ELSE /\ idx' = [idx EXCEPT ![t] = 0]
            /\ arg' = [arg EXCEPT ![t] = ""]
            /\ pc' = [pc EXCEPT ![t] = "sweep"]
    /\ UNCHANGED << port_profile, processes, shutdown_in_progress, ret, monitors, mon,
                    cycles, now, nextPid, alive, calls, stopLog, regAtStop, scheduled,
                    busy, restarts, commands >>

\* the status table locked by a thread that does not hold the registry lock,
\* which it takes afterwards
StopAll_FinalLock_StatusFirst(t) ==
    /\ pc[t] = "final"
    /\ svcLock = "free"
    /\ svcLock' = t
    /\ procLock' = "free"
    /\ pc' = [pc EXCEPT ![t] = "sweep"]
    /\ UNCHANGED << port_profile, polls, processes, services, shutdown_in_progress,
                    arg, cmd, idx, ret, monitors, mon, cycles, now, nextPid,
                    alive, calls, stopLog, regAtStop, scheduled, busy, restarts, commands >>

\* stop_all_services, line 533: lock the status table, the registry lock held
StopAll_FinalLock(t) ==
    /\ pc[t] = "final"
    /\ svcLock = "free"
    /\ svcLock' = t
    /\ pc' = [pc EXCEPT ![t] = "final_status"]
    /\ UNCHANGED << port_profile, polls, processes, services, shutdown_in_progress,
                    procLock, arg, cmd, idx, ret, monitors, mon, cycles, now, nextPid,
                    alive, calls, stopLog, regAtStop, scheduled, busy, restarts, commands >>

\* lines 534-543: every record stopped, the instance lock released, return
StopAll_FinalWrite(t) ==
    /\ pc[t] = "final_status"
    /\ services' = [r \in DOMAIN services |-> Stopped(services[r])]
    /\ procLock' = "free"
    /\ svcLock' = "free"
    /\ ret' = [ret EXCEPT ![t] = Ret("ok", "", "", 0, "Enhanced shutdown sequence completed")]
    /\ pc' = [pc EXCEPT ![t] = "done"]
    /\ UNCHANGED << port_profile, polls, processes, shutdown_in_progress, arg, cmd, idx,
                    monitors, mon, cycles, now, nextPid, alive, calls, stopLog,
                    regAtStop, scheduled, busy, restarts, commands >>

\* the command without its match on the service name
Restart_Call_AnyName(t, name) ==
    /\ pc[t] = "idle"
    /\ StartupReturned
    /\ commands < MaxCommands
    /\ commands' = commands + 1
    /\ ret' = [ret EXCEPT ![t] = NoRet]
    /\ arg' = [arg EXCEPT ![t] = name]
    /\ pc' = [pc EXCEPT ![t] = "op_stop"]
    /\ UNCHANGED << port_profile, polls, svcLock, processes, services, shutdown_in_progress, procLock,
                    cmd, idx, monitors, mon, cycles, now, nextPid, alive, calls, stopLog,
                    regAtStop, scheduled, busy, restarts >>

\* ------------------------------------------------ restart_service (command)
\* restart_service, lines 613-629: the service table lookup
Restart_Call(t, name) ==
    /\ pc[t] = "idle"
    /\ StartupReturned
    /\ commands < MaxCommands
    /\ commands' = commands + 1
    /\ IF name \notin Roles
       THEN /\ ret' = [ret EXCEPT ![t] = Ret("err", "Unknown service", name, 0, "")]
            /\ UNCHANGED << pc, arg >>
       ELSE /\ ret' = [ret EXCEPT ![t] = NoRet]
            /\ arg' = [arg EXCEPT ![t] = name]
            /\ pc' = [pc EXCEPT ![t] = "op_stop"]
    /\ UNCHANGED << port_profile, polls, svcLock, processes, services, shutdown_in_progress, procLock,
                    cmd, idx, monitors, mon, cycles, now, nextPid, alive, calls, stopLog,
                    regAtStop, scheduled, busy, restarts >>

\* restart_service that kills the child through the registry entry and leaves
\* the entry where it is
Restart_Stop_KillsInPlace(t) ==
    /\ pc[t] = "op_stop"
    /\ procLock = "free"
    /\ IF arg[t] \in DOMAIN processes
       THEN /\ processes' = processes
            /\ alive' = Terminate(alive, processes[arg[t]])
       ELSE UNCHANGED << processes, alive >>
    /\ pc' = [pc EXCEPT ![t] = "spawn"]
    /\ UNCHANGED << port_profile, polls, svcLock, services, shutdown_in_progress, procLock, arg, cmd, idx,
                    ret, monitors, mon, cycles, now, nextPid, calls, stopLog, regAtStop,
                    scheduled, busy, restarts, commands >>

\* restart_service, lines 631-638: remove, kill and wait under the registry lock
Restart_Stop(t) ==
    /\ pc[t] = "op_stop"
    /\ procLock = "free"
    /\ IF arg[t] \in DOMAIN processes
       THEN /\ processes' = MapRemove(processes, arg[t])
            /\ alive' = Terminate(alive, processes[arg[t]])
       ELSE UNCHANGED << processes, alive >>
    /\ pc' = [pc EXCEPT ![t] = "spawn"]
    /\ UNCHANGED << port_profile, polls, svcLock, services, shutdown_in_progress, procLock, arg, cmd, idx,
                    ret, monitors, mon, cycles, now, nextPid, calls, stopLog, regAtStop,
                    scheduled, busy, restarts, commands >>

\* ------------------------------------------- restart_service_with_backoff
\* the decision with the ceiling test off by one
BackoffDecision_CeilingOffByOne(svcs, name, t) ==
    IF name \notin Roles THEN "unknown"
    ELSE IF name \notin DOMAIN svcs THEN "no_status"
    ELSE IF svcs[name].restart_count > MaxRestartAttempts THEN "max"
    ELSE IF /\ svcs[name].last_restart # None
            /\ t - svcs[name].last_restart < svcs[name].restart_backoff THEN "backoff"
    ELSE "restart"

\* restart_service_with_backoff, lines 304-338: what the call decides to do
BackoffDecision(svcs, name, t) ==
    IF name \notin Roles THEN "unknown"
    ELSE IF name \notin DOMAIN svcs THEN "no_status"
    ELSE IF svcs[name].restart_count >= MaxRestartAttempts THEN "max"
    ELSE IF /\ svcs[name].last_restart # None
            /\ t - svcs[name].last_restart < svcs[name].restart_backoff THEN "backoff"
    ELSE "restart"

\* the call without the wait for the backoff delay: a role restarted less than
\* restart_backoff seconds ago is restarted again
Backoff_Call_IgnoresWindow(t, name) ==
    /\ pc[t] = "idle"
    /\ svcLock = "free"
    /\ StartupReturned
    /\ calls < MaxCalls
    /\ calls' = calls + 1
    /\ LET d == BackoffDecision(services, name, now) IN
       CASE d = "unknown" ->
                /\ ret' = [ret EXCEPT ![t] = Ret("err", "Unknown service", name, 0, "")]
                /\ UNCHANGED << pc, arg >>
         [] d = "no_status" ->
                /\ ret' = [ret EXCEPT ![t] = Ret("ok", "", name, 0, "")]
                /\ UNCHANGED << pc, arg >>
         [] d = "max" ->
                /\ ret' = [ret EXCEPT ![t] = Ret("err", "Max restart attempts exceeded",
                                                 name, 0, "not restarting")]
                /\ UNCHANGED << pc, arg >>
         [] d = "backoff" ->
                /\ ret' = [ret EXCEPT ![t] = NoRet]
                /\ arg' = [arg EXCEPT ![t] = name]
                /\ pc' = [pc EXCEPT ![t] = "rc_stop"]
         [] d = "restart" ->
                /\ ret' = [ret EXCEPT ![t] = NoRet]
                /\ arg' = [arg EXCEPT ![t] = name]
                /\ pc' = [pc EXCEPT ![t] = "rc_stop"]
    /\ UNCHANGED << port_profile, polls, svcLock, processes, services, shutdown_in_progress, procLock,
                    cmd, idx, monitors, mon, cycles, now, nextPid, alive, stopLog,
                    regAtStop, scheduled, busy, restarts, commands >>

\* restart_service_with_backoff, lines 301-340
Backoff_Call(t, name) ==
    /\ pc[t] = "idle"
    /\ svcLock = "free"
    /\ StartupReturned
    /\ calls < MaxCalls
    /\ calls' = calls + 1
    /\ LET d == BackoffDecision(services, name, now) IN
       CASE d = "unknown" ->
                /\ ret' = [ret EXCEPT ![t] = Ret("err", "Unknown service", name, 0, "")]
                /\ UNCHANGED << pc, arg >>
         [] d = "no_status" ->
                /\ ret' = [ret EXCEPT ![t] = Ret("ok", "", name, 0, "")]
                /\ UNCHANGED << pc, arg >>
         [] d = "max" ->
                /\ ret' = [ret EXCEPT ![t] = Ret("err", "Max restart attempts exceeded",
                                                 name, 0, "not restarting")]
                /\ UNCHANGED << pc, arg >>
         [] d = "backoff" ->
                /\ ret' = [ret EXCEPT ![t] = Ret("ok", "", name, 0, "in backoff period")]
                /\ UNCHANGED << pc, arg >>
         [] d = "restart" ->
                /\ ret' = [ret EXCEPT ![t] = NoRet]
                /\ arg' = [arg EXCEPT ![t] = name]
                /\ pc' = [pc EXCEPT ![t] = "rc_stop"]
    /\ UNCHANGED << port_profile, polls, svcLock, processes, services, shutdown_in_progress, procLock,
                    cmd, idx, monitors, mon, cycles, now, nextPid, alive, stopLog,
                    regAtStop, scheduled, busy, restarts, commands >>

\* graceful_stop_service, lines 368-384: under the registry lock, remove the
\* handle, kill, sleep 10 s and wait
GracefulStop_Kill(t) ==
    /\ pc[t] = "rc_stop"
    /\ procLock = "free"
    /\ procLock' = t
    /\ IF arg[t] \in DOMAIN processes
       THEN /\ processes' = MapRemove(processes, arg[t])
            /\ alive' = Terminate(alive, processes[arg[t]])
       ELSE UNCHANGED << processes, alive >>
    /\ pc' = [pc EXCEPT ![t] = "rc_stopped"]
    /\ UNCHANGED << port_profile, polls, svcLock, services, shutdown_in_progress, arg, cmd, idx, ret,
                    monitors, mon, cycles, now, nextPid, calls, stopLog, regAtStop,
                    scheduled, busy, restarts, commands >>

\* graceful_stop_service, lines 386-392: the status update, registry lock still held
GracefulStop_Status(t) ==
    /\ pc[t] = "rc_stopped"
    /\ svcLock = "free"
    /\ services' = [r \in DOMAIN services |->
                       IF r = arg[t] THEN Stopped(services[r]) ELSE services[r]]
    /\ procLock' = "free"
    /\ pc' = [pc EXCEPT ![t] = "spawn"]
    /\ UNCHANGED << port_profile, polls, svcLock, processes, shutdown_in_progress, arg, cmd, idx, ret,
                    monitors, mon, cycles, now, nextPid, alive, calls, stopLog, regAtStop,
                    scheduled, busy, restarts, commands >>

\* the statistics update with the doubling left uncapped
RestartStats_NoCap(st, t) ==
    [st EXCEPT !.restart_count = st.restart_count + 1,
               !.last_restart = t,
               !.restart_backoff = st.restart_backoff * 2]

\* restart_service_with_backoff, lines 348-357: the restart statistics
RestartStats(st, t) ==
    [st EXCEPT !.restart_count = st.restart_count + 1,
               !.last_restart = t,
               !.restart_backoff = Min(st.restart_backoff * 2, MaxBackoff)]

\* restart_service_with_backoff, lines 346-359: after start_service returned Ok
Backoff_Stats(t) ==
    /\ pc[t] = "stats"
    /\ svcLock = "free"
    /\ services' = [r \in DOMAIN services |->
                       IF r = arg[t] THEN RestartStats(services[r], now) ELSE services[r]]
    /\ restarts' = IF arg[t] \in DOMAIN services
                   THEN [restarts EXCEPT ![arg[t]] = restarts[arg[t]] + 1]
                   ELSE restarts
    /\ ret' = [ret EXCEPT ![t] = Ret("ok", "", arg[t], 0, "restarted")]
    /\ pc' = [pc EXCEPT ![t] = "idle"]
    /\ UNCHANGED << port_profile, polls, svcLock, processes, shutdown_in_progress, procLock, arg, cmd, idx,
                    monitors, mon, cycles, now, nextPid, alive, calls, stopLog, regAtStop,
                    scheduled, busy, commands >>

\* ------------------------------------------------ start_health_monitoring
\* line 409: the interval of the next sleep
ProbeInterval(m) == IF m.startup_phase THEN StartupInterval ELSE SteadyInterval

\* the accounting with the warm-up ended only when the duration is exceeded
MonTimer_SwitchesLate(m) ==
    LET probe_interval == ProbeInterval(m)
        elapsed == IF m.startup_phase THEN m.startup_elapsed + probe_interval
                   ELSE m.startup_elapsed
    IN [m EXCEPT !.startup_elapsed = elapsed,
                 !.startup_phase = m.startup_phase /\ ~(elapsed > StartupDuration)]

\* lines 409-418: the interval slept and the startup phase accounting
MonTimer(m) ==
    LET probe_interval == ProbeInterval(m)
        elapsed == IF m.startup_phase THEN m.startup_elapsed + probe_interval
                   ELSE m.startup_elapsed
    IN [m EXCEPT !.startup_elapsed = elapsed,
                 !.startup_phase = m.startup_phase /\ ~(elapsed >= StartupDuration)]

\* a successful probe that takes the recovery for a new start
ProbeSuccess_Restamps(st) ==
    IF st.status = "starting" \/ st.status = "error"
    THEN [st EXCEPT !.status = "running", !.error_message = NoMsg,
                    !.restart_count = 0, !.restart_backoff = InitialBackoff,
                    !.started_at = st.last_health_check + 1]
    ELSE st

\* lines 443-453: the success arm writes only for a starting or failed role
ProbeSuccess(st) ==
    IF st.status = "starting" \/ st.status = "error"
    THEN [st EXCEPT !.status = "running", !.error_message = NoMsg,
                    !.restart_count = 0, !.restart_backoff = InitialBackoff]
    ELSE st

\* a failed probe that sets the phase and leaves the message as it was
ProbeFailure_NoMessage(st, msg) == [st EXCEPT !.status = "error"]

\* lines 455-470: both failure arms set the phase and the message together
ProbeFailure(st, msg) == [st EXCEPT !.status = "error", !.error_message = msg]

\* the probe's write with a 2xx answer that leaves the restart statistics alone
ApplyProbe_NoReset(st, res, t) ==
    LET st1 == [st EXCEPT !.last_health_check = t] IN
    CASE res = "2xx" ->
            IF st1.status = "starting" \/ st1.status = "error"
            THEN [st1 EXCEPT !.status = "running", !.error_message = NoMsg]
            ELSE st1
      [] res = "non2xx" ->
            [st1 EXCEPT !.status = "error", !.error_message = "HTTP 500"]
      [] res = "transport" ->
            [st1 EXCEPT !.status = "error", !.error_message = "error sending request"]

\* lines 434-472: the record after a probe result was applied
ApplyProbe(st, res, t) ==
    LET st1 == [st EXCEPT !.last_health_check = t] IN
    CASE res = "2xx" ->
            ProbeSuccess(st1)
      [] res = "non2xx" -> ProbeFailure(st1, "HTTP 500")
      [] res = "transport" -> ProbeFailure(st1, "error sending request")

\* a monitoring task that runs whether or not start_all_services started it
Mon_WakeWithin_Unstarted(limit) ==
    /\ mon.pc \in {"sleep", "off"}
    /\ svcLock = "free"
    /\ cycles < limit
    /\ cycles' = cycles + 1
    /\ mon' = [MonTimer(mon) EXCEPT !.pc = "next", !.names = DOMAIN services]
    /\ UNCHANGED << port_profile, polls, svcLock, processes, services, shutdown_in_progress, procLock,
                    pc, arg, cmd, idx, ret, monitors, now, nextPid, alive, calls,
                    stopLog, regAtStop, scheduled, busy, restarts, commands >>

\* lines 408-423: wake from the sleep, snapshot the service names
Mon_WakeWithin(limit) ==
    /\ mon.pc = "sleep"
    /\ svcLock = "free"
    /\ cycles < limit
    /\ cycles' = cycles + 1
    /\ mon' = [MonTimer(mon) EXCEPT !.pc = "next", !.names = DOMAIN services]
    /\ UNCHANGED << port_profile, polls, svcLock, processes, services, shutdown_in_progress, procLock,
                    pc, arg, cmd, idx, ret, monitors, now, nextPid, alive, calls,
                    stopLog, regAtStop, scheduled, busy, restarts, commands >>

\* the same, for the number of cycles of the general specifications
Mon_Wake == Mon_WakeWithin(MaxCycles)

\* lines 425-432: next name of the snapshot, read its URL, send the probe
Mon_Probe ==
    /\ mon.pc = "next"
    /\ svcLock = "free"
    /\ IF mon.names = {}
       THEN mon' = [mon EXCEPT !.pc = "sleep", !.name = "", !.url = << >>]
       ELSE \E n \in mon.names :
              mon' = [mon EXCEPT !.pc = "probe", !.name = n, !.names = mon.names \ {n},
                                 !.url = IF n \in DOMAIN services
                                         THEN << services[n].health_check_url >>
                                         ELSE << >>,
                                 !.probed = IF n \in DOMAIN services
                                            THEN services[n].pid
                                            ELSE None]
    /\ UNCHANGED << port_profile, polls, svcLock, processes, services, shutdown_in_progress, procLock,
                    pc, arg, cmd, idx, ret, monitors, cycles, now, nextPid, alive, calls,
                    stopLog, regAtStop, scheduled, busy, restarts, commands >>

\* line 432: the awaited probe completes with a 2xx response, another
\* response, or a transport error (refused, timed out)
Mon_AnswerFrom(answers) ==
    /\ mon.pc = "probe"
    /\ \E res \in answers :
         mon' = [mon EXCEPT !.pc = "write", !.result = res]
    /\ UNCHANGED << port_profile, polls, svcLock, processes, services, shutdown_in_progress, procLock,
                    pc, arg, cmd, idx, ret, monitors, cycles, now, nextPid, alive, calls,
                    stopLog, regAtStop, scheduled, busy, restarts, commands >>

\* the same, with every answer possible
Mon_Answer == Mon_AnswerFrom({"2xx", "non2xx", "transport"})

\* the write of a probe result that stamps last_health_check only on success
Mon_Write_FailureUnstamped ==
    /\ mon.pc = "write"
    /\ svcLock = "free"
    /\ IF mon.url # << >> /\ mon.name \in DOMAIN services
       THEN /\ services' = [services EXCEPT
                               ![mon.name] =
                                  IF mon.result = "2xx"
                                  THEN ApplyProbe(services[mon.name], mon.result, now)
                                  ELSE ApplyProbe(services[mon.name], mon.result,
                                                  services[mon.name].last_health_check)]
            /\ scheduled' = IF mon.result # "2xx" /\ services[mon.name].status = "running"
                            THEN scheduled \cup {mon.name} ELSE scheduled
            /\ restarts' = IF mon.result = "2xx" THEN [restarts EXCEPT ![mon.name] = 0]
                           ELSE restarts
       ELSE UNCHANGED << services, scheduled, restarts >>
    /\ mon' = [mon EXCEPT !.pc = "next", !.result = "", !.probed = None]
    /\ UNCHANGED << port_profile, polls, svcLock, processes, shutdown_in_progress, procLock, pc, arg, cmd,
                    idx, ret, monitors, cycles, now, nextPid, alive, calls, stopLog,
                    regAtStop, busy, commands >>

\* lines 434-473: the result is written to the role's record under the status lock
Mon_Write ==
    /\ mon.pc = "write"
    /\ svcLock = "free"
    /\ IF mon.url # << >> /\ mon.name \in DOMAIN services
       THEN /\ services' = [services EXCEPT
                               ![mon.name] = ApplyProbe(services[mon.name], mon.result, now)]
            /\ scheduled' = IF mon.result # "2xx" /\ services[mon.name].status = "running"
                            THEN scheduled \cup {mon.name} ELSE scheduled
            /\ restarts' = IF mon.result = "2xx" THEN [restarts EXCEPT ![mon.name] = 0]
                           ELSE restarts
       ELSE UNCHANGED << services, scheduled, restarts >>
    /\ mon' = [mon EXCEPT !.pc = "next", !.result = "", !.probed = None]
    /\ UNCHANGED << port_profile, polls, svcLock, processes, shutdown_in_progress, procLock, pc, arg, cmd,
                    idx, ret, monitors, cycles, now, nextPid, alive, calls, stopLog,
                    regAtStop, busy, commands >>

\* ------------------------------------------------------- get_system_health
\* get_system_health, lines 485-491: overall_status of a status table
OverallStatus(svcs) ==
    IF \A r \in DOMAIN svcs : svcs[r].status = "running" THEN "healthy"
    ELSE IF \E r \in DOMAIN svcs : svcs[r].status = "running" THEN "degraded"
    ELSE "unhealthy"

\* the get_system_health command, lines 480-497 and 600-605: the snapshot is
\* computed under the status lock and returned
GetSystemHealth(t) ==
    /\ pc[t] = "idle"
    /\ svcLock = "free"
    /\ StartupReturned
    /\ ret' = [ret EXCEPT ![t] = Ret("ok", OverallStatus(services), "", 0, "health")]
    /\ UNCHANGED << port_profile, polls, svcLock, processes, services, shutdown_in_progress, procLock,
                    pc, arg, cmd, idx, monitors, mon, cycles, now, nextPid, alive, calls,
                    stopLog, regAtStop, scheduled, busy, restarts, commands >>

\* --------------------------------------------------------------- the clock
Tick ==
    /\ now < MaxTime
    /\ now' = now + 1
    /\ UNCHANGED << port_profile, polls, svcLock, processes, services, shutdown_in_progress, procLock,
                    pc, arg, cmd, idx, ret, monitors, mon, cycles, nextPid, alive, calls,
                    stopLog, regAtStop, scheduled, busy, restarts, commands >>

\* start_all_services and the start_service calls of every caller
LaunchNext ==
    \/ StartAll_Begin
    \/ \E t \in Threads : StartService_Spawn(t)
    \/ \E t \in Threads : StartService_Store(t)
    \/ \E t \in Threads : StartService_Status(t)
    \/ StartAll_Monitor

\* stop_all_services
StopNext ==
    \/ \E t \in Stoppers : StopAll_Enter(t)
    \/ \E t \in Stoppers : GracefulStopEnhanced_Kill(t)
    \/ \E t \in Stoppers : GracefulStopEnhanced_Status(t)
    \/ \E t \in Stoppers : StopAll_Sweep(t)
    \/ \E t \in Stoppers : StopAll_Final(t)

\* the restart_service command
CommandNext ==
    \/ \E t \in Operators, n \in Names : Restart_Call(t, n)
    \/ \E t \in Operators : Restart_Stop(t)

\* restart_service_with_backoff
BackoffNext ==
    \/ \E t \in Coordinators, n \in Names : Backoff_Call(t, n)
    \/ \E t \in Coordinators : GracefulStop_Kill(t)
    \/ \E t \in Coordinators : GracefulStop_Status(t)
    \/ \E t \in Coordinators : Backoff_Stats(t)

\* the health monitoring task
MonitorNext ==
    \/ Mon_Wake
    \/ Mon_Probe
    \/ Mon_Answer
    \/ Mon_Write

Next ==
    \/ LaunchNext
    \/ StopNext
    \/ CommandNext
    \/ BackoffNext
    \/ MonitorNext
    \/ Tick

\* the whole supervisor
Spec == Init /\ [][Next]_vars

\* startup and monitoring, no operator request
NextStart == LaunchNext \/ MonitorNext
SpecStart == Init /\ [][NextStart]_vars

\* the same, with the scheduling the runtime gives: the setup hook runs to its
\* return and the monitoring task is resumed whenever its timer or probe completes
SpecStartFair == SpecStart /\ WF_vars(LaunchNext) /\ WF_vars(MonitorNext)

\* startup, shutdown requests and restart commands
NextStop == LaunchNext \/ StopNext \/ CommandNext
SpecStop == Init /\ [][NextStop]_vars

\* startup and the restart coordinator, as time passes
NextRestart == LaunchNext \/ BackoffNext \/ Tick
SpecRestart == Init /\ [][NextRestart]_vars


\* The restart coordinator on a started supervisor whose role r0 was relaunched
\* by n overlapping restart_service_with_backoff calls: each call's
\* start_service stored its Child over the previous one and inserted a fresh
\* status record, then each call added one to restart_count and doubled
\* restart_backoff (lines 346-358), which is how restart_count exceeds 1.
InitOverlapped ==
    /\ port_profile \in Profiles
    /\ \E r0 \in Roles, n \in 0..MaxOverlap :
         LET tab == ServicesTable(port_profile)
             k0 == CHOOSE k \in 1..Len(tab) : tab[k].name = r0
             pidOf(k) == IF k = k0 /\ n > 0 THEN Len(tab) + n ELSE k
             fresh(k) == NewStatus(tab[k].name, tab[k].port, tab[k].url, pidOf(k), 0)
             bump[i \in 0..MaxOverlap] ==
                 IF i = 0 THEN fresh(k0) ELSE RestartStats(bump[i - 1], 0)
         IN /\ processes = [r \in Roles |->
                               pidOf(CHOOSE k \in 1..Len(tab) : tab[k].name = r)]
            /\ services = [r \in Roles |->
                              IF r = r0 THEN bump[n]
                              ELSE fresh(CHOOSE k \in 1..Len(tab) : tab[k].name = r)]
            /\ nextPid = Len(tab) + n + 1
            /\ alive = ((1..Len(tab)) \ (IF n > 0 THEN {k0} ELSE {}))
                          \cup ((Len(tab) + 1)..(Len(tab) + n))
            /\ restarts = [r \in Roles |-> IF r = r0 THEN n ELSE 0]
    /\ shutdown_in_progress = FALSE
    /\ procLock = "free"
    /\ pc = [t \in Threads |-> IF t = Starter THEN "done" ELSE "idle"]
    /\ arg = [t \in Threads |-> IF t = Starter THEN "synapse" ELSE ""]
    /\ cmd = [t \in Threads |-> None]
    /\ idx = [t \in Threads |-> IF t = Starter THEN 4 ELSE 0]
    /\ ret = [t \in Threads |-> IF t = Starter THEN Ret("ok", "", "", 0, "") ELSE NoRet]
    /\ monitors = 1
    /\ mon = [MonIdle EXCEPT !.pc = "sleep"]
    /\ cycles = 0
    /\ now = 0
    /\ calls = 0
    /\ commands = 0
    /\ stopLog = << >>
    /\ regAtStop = << >>
    /\ scheduled = {}
    /\ busy = {}
    /\ svcLock = "free"
    /\ polls = [t \in Threads |-> 0]

NextOverlapped ==
    \/ BackoffNext
    \/ \E t \in Coordinators : StartService_Spawn(t)
    \/ \E t \in Coordinators : StartService_Store(t)
    \/ \E t \in Coordinators : StartService_Status(t)
    \/ Tick
SpecOverlapped == InitOverlapped /\ [][NextOverlapped]_vars

\* the monitor alone, probing a supervisor in one of the states above (one
\* port profile: the probes do not depend on it)
InitRecover == InitOverlapped /\ port_profile = "Default"
SpecRecover == InitRecover /\ [][MonitorNext]_vars

\* one supervisor with port profile Default
InitDefault == Init /\ port_profile = "Default"

\* the roles the monitor has marked unhealthy
Unhealthy == {r \in DOMAIN services : services[r].status = "error"}

\* startup, the monitor, and restart_service_with_backoff called for roles the
\* monitor found unhealthy
NextHeal ==
    \/ LaunchNext
    \/ MonitorNext
    \/ calls < MaxHealCalls /\ \E t \in Coordinators, n \in Unhealthy : Backoff_Call(t, n)
    \/ \E t \in Coordinators : GracefulStop_Kill(t)
    \/ \E t \in Coordinators : GracefulStop_Status(t)
    \/ \E t \in Coordinators : Backoff_Stats(t)
SpecHeal == InitDefault /\ [][NextHeal]_vars

\* startup, the monitor, and one stop_all_services request
NextHalt ==
    \/ LaunchNext
    \/ MonitorNext
    \/ StopAll_Enter("stop1")
    \/ GracefulStopEnhanced_Kill("stop1")
    \/ GracefulStopEnhanced_Status("stop1")
    \/ StopAll_Sweep("stop1")
    \/ StopAll_Final("stop1")
SpecHalt == InitDefault /\ [][NextHalt]_vars

\* startup, the monitor, and the get_system_health command
HealthNext == \E t \in Operators : GetSystemHealth(t)
NextHealth ==
    \/ LaunchNext
    \/ MonitorNext
    \/ HealthNext
SpecHealth == InitDefault /\ [][NextHealth]_vars

\* startup, the restart_service command and restart_service_with_backoff, which
\* can act on one role at the same time
NextRace ==
    \/ LaunchNext
    \/ CommandNext
    \/ BackoffNext
SpecRace == InitDefault /\ [][NextRace]_vars

\* what thread t does next in stop_all_services, in the finer steps
DrainStep(t) ==
    \/ StopAll_Enter(t)
    \/ GracefulStopEnhanced_Remove(t)
    \/ GracefulStopEnhanced_Poll(t)
    \/ GracefulStopEnhanced_Force(t)
    \/ GracefulStopEnhanced_Lock(t)
    \/ GracefulStopEnhanced_Write(t)
    \/ StopAll_Sweep(t)
    \/ StopAll_FinalLock(t)
    \/ StopAll_FinalWrite(t)

\* startup, one stop_all_services call in the finer steps, restart_service
\* commands
NextDrain ==
    \/ LaunchNext
    \/ DrainStep("stop1")
    \/ CommandNext
SpecDrain == InitDefault /\ [][NextDrain]_vars

\* the thread that executes stop_all_services is scheduled again whenever it
\* can take a step; nothing is assumed of the other threads
SpecDrainFair ==
    /\ SpecDrain
    /\ WF_vars(DrainStep("stop1"))

\* startup, one stop_all_services call in the finer steps, calls of
\* restart_service_with_backoff
NextTeardown ==
    \/ LaunchNext
    \/ DrainStep("stop1")
    \/ BackoffNext
SpecTeardown == InitDefault /\ [][NextTeardown]_vars

\* what thread t does next in stop_all_services, the ordered stops in two steps
\* each, the final status update in two
CloseStep(t) ==
    \/ StopAll_Enter(t)
    \/ GracefulStopEnhanced_Kill(t)
    \/ GracefulStopEnhanced_Status(t)
    \/ StopAll_Sweep(t)
    \/ StopAll_FinalLock(t)
    \/ StopAll_FinalWrite(t)

\* every operation that takes a lock, the monitor left out: startup, one
\* stop_all_services call, restart_service_with_backoff, get_system_health
NextLocks ==
    \/ LaunchNext
    \/ CloseStep("stop1")
    \/ BackoffNext
    \/ HealthNext
SpecLocks == InitDefault /\ [][NextLocks]_vars

SpecLocksFair ==
    /\ SpecLocks
    /\ WF_vars(CloseStep("stop1"))
    /\ WF_vars(LaunchNext \/ BackoffNext)

\* what a probe answers when every worker is healthy: 2xx while the role's
\* process runs, a refused connection when it does not
HealthyAnswers ==
    IF mon.name \in DOMAIN processes /\ processes[mon.name] \in alive
    THEN {"2xx"}
    ELSE {"transport"}

\* startup, the monitor through its warm-up and beyond with healthy workers,
\* restart_service commands
NextCadence ==
    \/ LaunchNext
    \/ Mon_WakeWithin(MaxWarmCycles)
    \/ Mon_Probe
    \/ Mon_AnswerFrom(HealthyAnswers)
    \/ Mon_Write
    \/ CommandNext
SpecCadence == InitDefault /\ [][NextCadence]_vars

\* ================================================================== claims

\* ---- C1
TeardownPcs == {"graceful", "graceful_status", "sweep", "final"}
RanTeardown(t) ==
    \/ pc[t] \in TeardownPcs
    \/ pc[t] = "done" /\ ret[t].log = "Enhanced shutdown sequence completed"
SkippedTeardown(t) == pc[t] = "done" /\ ret[t].log = "Shutdown already in progress"

\* C1: however many stop_all_services calls are made, concurrently or one
\* after another, exactly one of them runs the teardown sequence; every other
\* call returns at once, touches neither the registry nor the status table nor
\* any process, and does nothing afterwards.
C1_ExactlyOneTeardown ==
    /\ [](Cardinality({t \in Stoppers : RanTeardown(t)}) =
            IF \E t \in Stoppers : pc[t] # "idle" THEN 1 ELSE 0)
    /\ [][\A t \in Stoppers :
            /\ (pc[t] = "idle" /\ pc'[t] = "done")
                 => /\ ret'[t].log = "Shutdown already in progress"
                    /\ UNCHANGED << processes, services, alive, stopLog, procLock >>
            /\ SkippedTeardown(t) => SkippedTeardown(t)']_vars

\* one call is in the middle of the teardown while the other has returned as a duplicate
C1_Witness ==
    \E t1, t2 \in Stoppers :
        /\ pc[t1] \in TeardownPcs
        /\ stopLog # << >>
        /\ SkippedTeardown(t2)

\* ---- C2
\* the reverse-dependency rank the claim names: synapse, core, vault, alden
C2_Rank == [synapse |-> 1, core |-> 2, vault |-> 3, alden |-> 4]
\* the logged request terminated the handle the registry held for the role
\* when the shutdown began
C2_HeldAtStop(e) == e.name \in DOMAIN regAtStop /\ regAtStop[e.name] = e.pid

C3_Started(r) ==
    /\ r \in DOMAIN services
    /\ r \in DOMAIN processes
    /\ services[r].status = "starting"
    /\ services[r].pid # None
    /\ services[r].pid = processes[r]
    /\ services[r].restart_count = 0
    /\ services[r].restart_backoff = 1
    /\ services[r].port = GetPorts(port_profile)[r]
    /\ services[r].health_check_url.port = GetPorts(port_profile)[r]
    /\ services[r].health_check_url.path = "/health"

\* C3: at the moment start_all_services returns Ok, every one of the four
\* roles has a status record in phase starting with a pid, restart_count 0,
\* restart_backoff 1 and a health-check URL on the port the profile assigns to
\* the role, and the registry holds a handle for every role.
C3_StartAllSuccess ==
    [][(pc[Starter] # "done" /\ pc'[Starter] = "done")
          => /\ ret'[Starter].kind = "ok"
             /\ \A r \in Roles : C3_Started(r)']_vars

\* start_all_services has returned Ok
C3_Witness == pc[Starter] = "done" /\ ret[Starter].kind = "ok" /\ DOMAIN services = Roles

\* ---- C4
\* C4: when the pre-flight check finds a port of the table unavailable,
\* start_all_services returns an error naming an unavailable role and its
\* port, nothing was spawned, the registry and the status table are as they
\* were (empty) and no monitoring task was started.
C4_PreflightAbort ==
    (pc[Starter] # "idle" /\ busy # {}) =>
        /\ pc[Starter] = "failed"
        /\ ret[Starter].kind = "err"
        /\ ret[Starter].msg = "Port unavailable"
        /\ ret[Starter].name \in busy
        /\ ret[Starter].port = GetPorts(port_profile)[ret[Starter].name]
        /\ DOMAIN processes = {}
        /\ DOMAIN services = {}
        /\ alive = {}
        /\ nextPid = 1
        /\ monitors = 0
        /\ mon.pc = "off"

\* the port of a role other than the first of the table is taken
C4_Witness ==
    /\ pc[Starter] = "failed"
    /\ busy # {}
    /\ "alden" \notin busy

\* ---- C5
\* the monitor printed "scheduling restart" for the role and left it in phase error
C5_Unhealthy(r) ==
    /\ r \in scheduled
    /\ r \in DOMAIN services
    /\ services[r].status = "error"
\* restart_service_with_backoff is running for the role, or the role was relaunched
C5_RestartUnderWay(r) ==
    \/ \E t \in Coordinators : pc[t] # "idle" /\ arg[t] = r
    \/ r \in DOMAIN services /\ services[r].status = "starting"
    \/ restarts[r] > 0

\* C5: whenever the monitor sees a probe of a running role fail, the restart
\* coordinator is eventually invoked for that role and the role relaunched,
\* without an operator acting.
C5_RestartFollowsFailure ==
    \A r \in Roles : C5_Unhealthy(r) ~> C5_RestartUnderWay(r)

\* ---- C6
\* no restart_service_with_backoff call is working on the role
NoCallFor(r) == \A t \in Coordinators : pc[t] = "idle" \/ arg[t] # r

\* C6: after k successive restarts of a role with no successful probe in
\* between, restart_backoff is min(2^k, 30): 1, 2, 4, 8, 16, 30, 30, ...
C6_BackoffSequence ==
    \A r \in DOMAIN services :
        NoCallFor(r) => services[r].restart_backoff = Min(2 ^ restarts[r], 30)

\* ---- C7
\* C7: every successful relaunch by the restart coordinator adds one to
\* restart_count and stamps last_restart, so k successful restarts with no
\* successful probe in between leave restart_count = k.
C7_RestartCount ==
    \A r \in DOMAIN services :
        NoCallFor(r) =>
            /\ services[r].restart_count = restarts[r]
            /\ restarts[r] > 0 => services[r].last_restart # None

\* ---- C9
\* C9: a restart_service command that succeeds has incremented the role's
\* restart_count and recorded last_restart, as a monitor-driven restart does.
C9_CommandFollowsPolicy ==
    [][\A t \in Operators :
          (pc[t] = "status" /\ pc'[t] = "idle")
             => /\ services'[arg[t]].restart_count >= 1
                /\ services'[arg[t]].last_restart # None]_vars

\* ---- C10
\* a launch, restart or stop operation that covers the role is in progress
InFlight(r) ==
    \E t \in Threads :
        /\ pc[t] \notin {"idle", "done", "failed"}
        /\ (t \in Stoppers \/ arg[t] = r)

\* C10: whenever no launch, restart or stop operation on a role is in
\* progress, the role's pid is set if and only if the registry holds a handle
\* for the role.
C10_PidIffHandle ==
    \A r \in Roles :
        ~InFlight(r) =>
            ((r \in DOMAIN services /\ services[r].pid # None) <=> r \in DOMAIN processes)

\* ---- C8
\* thread t makes this step the call restart_service_with_backoff(r)
C8_CallFor(t, r) ==
    /\ pc[t] = "idle"
    /\ calls' = calls + 1
    /\ ret'[t].name = r \/ (pc'[t] = "rc_stop" /\ arg'[t] = r)

\* C8: a restart_service_with_backoff call for a role whose restart_count is
\* 5 or more returns the max-attempts error and does nothing: no handle is
\* removed or killed, nothing is spawned, the status table is unchanged.
C8_CeilingRefuses ==
    [][\A t \in Coordinators, r \in Roles :
          (C8_CallFor(t, r) /\ r \in DOMAIN services /\ services[r].restart_count >= 5)
             => /\ ret'[t].kind = "err"
                /\ ret'[t].msg = "Max restart attempts exceeded"
                /\ pc'[t] = "idle"
                /\ UNCHANGED << processes, services, alive, nextPid, procLock >>]_vars

\* a call was refused for a role whose restart_count stands at the ceiling
C8_Witness ==
    \E t \in Coordinators :
        /\ pc[t] = "idle"
        /\ ret[t].msg = "Max restart attempts exceeded"
        /\ ret[t].name \in DOMAIN services
        /\ services[ret[t].name].restart_count = 5
        /\ ret[t].name \in DOMAIN processes

\* C11: in every reachable state a role whose phase is "stopped" has no
\* process id in its status record.
C11_StoppedHasNoPid ==
    \A r \in DOMAIN services : services[r].status = "stopped" => services[r].pid = None

\* a stop path wrote "stopped" into the record of a role that had been launched
C11_Witness ==
    \E r \in DOMAIN services :
        /\ services[r].status = "stopped"
        /\ services[r].pid = None
        /\ \E i \in 1..Len(stopLog) : stopLog[i].name = r

\* C12: in every reachable state, whatever way restart_service_with_backoff
\* calls interleave (calls overlapping on one role included), every role's
\* restart_count is at most the ceiling of 5.
C12_CountWithinCeiling ==
    \A r \in DOMAIN services : services[r].restart_count <= MaxRestartAttempts

\* C13: in every reachable state every role's restart_backoff lies between
\* 1 and 30 seconds inclusive.
C13_BackoffRange ==
    \A r \in DOMAIN services :
        /\ services[r].restart_backoff >= InitialBackoff
        /\ services[r].restart_backoff <= MaxBackoff

\* a restart doubled the delay of a role that had already been restarted, and
\* another role still has the initial delay
C13_Witness ==
    /\ \E r \in DOMAIN services :
          /\ services[r].restart_count >= 1
          /\ services[r].restart_backoff = 2 * InitialBackoff
          /\ \E t \in Coordinators : ret[t].log = "restarted" /\ ret[t].name = r
    /\ \E r \in DOMAIN services : services[r].restart_backoff = InitialBackoff

\* the monitor writes the result of its probe of role r in this step
ProbeWritten(r) ==
    /\ mon.pc = "write"
    /\ mon'.pc = "next"
    /\ mon.name = r
    /\ mon.url # << >>
    /\ r \in DOMAIN services

\* C14: a 2xx probe of a role whose phase is "starting" or "error" sets, in
\* one update of the status table, the phase to "running", error_message to
\* none, restart_count to 0 and restart_backoff to 1; a 2xx probe of a role
\* in any other phase changes nothing but last_health_check.
C14_SuccessfulProbe ==
    [][\A r \in Roles :
          (ProbeWritten(r) /\ mon.result = "2xx") =>
              /\ r \in DOMAIN services'
              /\ IF services[r].status \in {"starting", "error"}
                 THEN services'[r] = [services[r] EXCEPT
                                         !.status = "running",
                                         !.error_message = NoMsg,
                                         !.restart_count = 0,
                                         !.restart_backoff = 1,
                                         !.last_health_check = now]
                 ELSE services'[r] = [services[r] EXCEPT !.last_health_check = now]
              /\ \A q \in DOMAIN services \ {r} : services'[q] = services[q]]_vars

\* a role that had been restarted (last_restart is set) was probed with
\* success: it is running with restart_count 0 and backoff 1, and another
\* 2xx probe of a running role has its result ready to be written
C14_Witness ==
    /\ \E r \in DOMAIN services :
          /\ services[r].status = "running"
          /\ services[r].last_restart # None
          /\ services[r].restart_count = 0
          /\ services[r].restart_backoff = 1
          /\ services[r].last_health_check # None
    /\ mon.pc = "write"
    /\ mon.result = "2xx"
    /\ mon.name \in DOMAIN services
    /\ services[mon.name].status = "running"

\* C15: in every monitoring cycle every role with a status record gets its
\* last_health_check written, whether its probe succeeded or failed, and a
\* failed probe (a response outside 2xx or a transport error) sets the phase
\* to "error" and records a non-empty reason in error_message.
C15_ProbeRecorded ==
    /\ []((mon.pc = "sleep" /\ cycles >= 1) =>
             \A r \in DOMAIN services : services[r].last_health_check # None)
    /\ [][\A r \in Roles :
             ProbeWritten(r) =>
                 /\ services'[r].last_health_check = now
                 /\ mon.result # "2xx" =>
                       /\ services'[r].status = "error"
                       /\ services'[r].error_message \notin {NoMsg, ""}]_vars

\* a cycle has ended in which one role failed its probe and another passed
C15_Witness ==
    /\ mon.pc = "sleep"
    /\ cycles >= 1
    /\ \E r \in DOMAIN services :
          /\ services[r].status = "error"
          /\ services[r].error_message # NoMsg
          /\ services[r].last_health_check # None
    /\ \E r \in DOMAIN services :
          /\ services[r].status = "running"
          /\ services[r].last_health_check # None

\* role r was last restarted less than restart_backoff seconds ago
InBackoffWindow(r) ==
    /\ r \in DOMAIN services
    /\ services[r].last_restart # None
    /\ now - services[r].last_restart < services[r].restart_backoff

\* the call returned success and touched nothing
ReturnsOkUntouched(t) ==
    /\ ret'[t].kind = "ok"
    /\ pc'[t] = "idle"
    /\ UNCHANGED << processes, services, alive, nextPid, procLock >>

\* C16: a restart_service_with_backoff call for a role whose last restart
\* was less than restart_backoff seconds ago returns success and does
\* nothing: no handle is removed or killed, nothing is spawned, and the
\* role's status record is unchanged.
C16_BackoffNoop ==
    [][\A t \in Coordinators, r \in Roles :
          (C8_CallFor(t, r) /\ InBackoffWindow(r)) => ReturnsOkUntouched(t)]_vars

\* C16, amended: the same for a role whose restart_count is below the
\* ceiling of 5; at or above the ceiling the call is refused with an error
\* before the delay is looked at.
C16_BackoffNoopBelowCeiling ==
    [][\A t \in Coordinators, r \in Roles :
          (/\ C8_CallFor(t, r)
           /\ InBackoffWindow(r)
           /\ services[r].restart_count < MaxRestartAttempts) => ReturnsOkUntouched(t)]_vars

\* a call returned at once for a role restarted less than its delay ago
C16_Witness ==
    \E t \in Coordinators :
        /\ pc[t] = "idle"
        /\ ret[t].kind = "ok"
        /\ ret[t].log = "in backoff period"
        /\ InBackoffWindow(ret[t].name)
        /\ services[ret[t].name].restart_count \in 1..(MaxRestartAttempts - 1)
        /\ ret[t].name \in DOMAIN processes

\* the relaunch step of thread t's restart_service_with_backoff call fails
RelaunchFails(t) ==
    /\ pc[t] = "spawn"
    /\ pc'[t] = "idle"
    /\ ret'[t].kind = "err"

\* C17: when the relaunch step of a restart_service_with_backoff call fails,
\* the error is returned to the caller, the role's status remains in phase
\* "error", and restart_count, last_restart and restart_backoff are not
\* advanced.
C17_FailedRelaunch ==
    [][\A t \in Coordinators :
          (RelaunchFails(t) /\ arg[t] \in DOMAIN services) =>
              /\ ret'[t].msg \in {"Python 3.x not found", "Python script not found",
                                  "Failed to start service"}
              /\ services'[arg[t]].status = "error"
              /\ services'[arg[t]].restart_count = services[arg[t]].restart_count
              /\ services'[arg[t]].last_restart = services[arg[t]].last_restart
              /\ services'[arg[t]].restart_backoff = services[arg[t]].restart_backoff
              /\ restarts' = restarts]_vars

\* C19: once a role's phase is "stopped" it changes only by a relaunch of
\* the role, which takes it to "starting"; no probe result moves a stopped
\* role to "error" or "running".
C19_StoppedIsTerminal ==
    [][\A r \in DOMAIN services :
          services[r].status = "stopped" =>
              /\ r \in DOMAIN services'
              /\ services'[r].status \in {"stopped", "starting"}]_vars

\* C18: when the stop_all_services call that runs the teardown returns, the
\* registry is empty, every handle the call took out of it is terminated
\* (handles a racing restart inserted included), and every role of the
\* status table has phase "stopped" and no process id.
C18_StopAllPostcondition ==
    [][\A t \in Stoppers :
          (pc[t] = "final" /\ pc'[t] = "done") =>
              /\ DOMAIN processes' = {}
              /\ \A i \in 1..Len(stopLog') : stopLog'[i].pid \notin alive'
              /\ \A r \in DOMAIN services' :
                    /\ services'[r].status = "stopped"
                    /\ services'[r].pid = None]_vars

\* the teardown has just returned after its sweep terminated a handle that a
\* racing restart_service command had put into the registry
C18_Witness ==
    \E t \in Stoppers :
        /\ pc[t] = "done"
        /\ ret[t].log = "Enhanced shutdown sequence completed"
        /\ \E i \in 1..Len(stopLog) :
              /\ stopLog[i].step = "sweep"
              /\ ~C2_HeldAtStop(stopLog[i])
        /\ DOMAIN processes = {}
        /\ \A r \in DOMAIN services : services[r].status = "stopped"
        /\ DOMAIN services # {}

\* the launch order the claim names
C20_LaunchOrder == << "alden", "vault", "core", "synapse" >>
C20_SpawnErrors == {"Python 3.x not found", "Python script not found",
                    "Failed to start service"}
\* the workers launched before the k-th
C20_Before(k) == {C20_LaunchOrder[i] : i \in 1..(k - 1)}

\* C20: when start_service fails for the k-th worker of start_all_services
\* (order alden, vault, core, synapse), start_all_services returns that
\* worker's error, the k-1 workers launched before keep their registry
\* handles and their "starting" records, and no later worker is spawned or
\* given a record (and no monitor is started).
C20_SpawnAbort ==
    /\ []((pc[Starter] = "failed" /\ busy = {}) =>
             LET k == idx[Starter] IN
             /\ ret[Starter].kind = "err"
             /\ ret[Starter].msg \in C20_SpawnErrors
             /\ ret[Starter].name = C20_LaunchOrder[k]
             /\ DOMAIN processes = C20_Before(k)
             /\ DOMAIN services = C20_Before(k)
             /\ \A r \in C20_Before(k) : C3_Started(r) /\ processes[r] \in alive
             /\ alive = 1..(k - 1)
             /\ nextPid = k
             /\ monitors = 0
             /\ mon.pc = "off")
    /\ [][(pc[Starter] = "spawn" /\ cmd'[Starter] = None) =>
             /\ pc'[Starter] = "failed"
             /\ ret'[Starter].kind = "err"
             /\ ret'[Starter].name = C20_LaunchOrder[idx[Starter]]
             /\ UNCHANGED << processes, services, alive, idx >>]_vars

\* the spawn of the third worker, core, failed after alden and vault were launched
C20_Witness ==
    /\ pc[Starter] = "failed"
    /\ busy = {}
    /\ idx[Starter] = 3
    /\ ret[Starter].name = "core"
    /\ ret[Starter].msg = "Failed to start service"
    /\ DOMAIN processes = {"alden", "vault"}
    /\ DOMAIN services = {"alden", "vault"}

\* the roles of the status table whose phase is "running"
C21_Running == {r \in DOMAIN services : services[r].status = "running"}

\* C21: for every content of the status table, the empty table included, the
\* overall_status of a health snapshot is "healthy" exactly when all roles
\* of the table are running, "degraded" when some but not all are running,
\* and "unhealthy" when none is running.
C21_OverallStatus ==
    [][\A t \in Operators :
          (ret'[t].log = "health" /\ ret'[t] # ret[t]) =>
              /\ ret'[t].msg = "healthy" <=> C21_Running = DOMAIN services
              /\ (C21_Running # {} /\ C21_Running # DOMAIN services)
                    => ret'[t].msg = "degraded"
              /\ C21_Running = {} => ret'[t].msg = "unhealthy"]_vars

\* thread t makes a step of stop_all_services that writes the status table
C23_StopWrites(t) ==
    /\ pc[t] \in {"graceful_status", "final"}
    /\ pc'[t] # pc[t]

\* C23: no operation removes a status record from the table, and
\* stop_all_services changes nothing of a record but its phase and its
\* process id: restart_count, restart_backoff, last_restart, started_at,
\* port and health-check URL stay as they were.
C23_RecordsKept ==
    [][/\ DOMAIN services \subseteq DOMAIN services'
       /\ \A t \in Stoppers :
             C23_StopWrites(t) =>
                 \A r \in DOMAIN services :
                     services'[r] = [services[r] EXCEPT !.status = services'[r].status,
                                                         !.pid = services'[r].pid]]_vars

\* stop_all_services has returned and the records of all four roles are
\* still in the table, stopped, with their ports and start times
C23_Witness ==
    /\ \E t \in Stoppers : pc[t] = "done" /\ RanTeardown(t)
    /\ DOMAIN services = Roles
    /\ \A r \in Roles :
          /\ services[r].status = "stopped"
          /\ services[r].port = GetPorts(port_profile)[r]
          /\ services[r].started_at # None
          /\ services[r].restart_backoff = InitialBackoff

\* C26: in every reachable state at most one monitoring task exists; it is
\* started by start_all_services, after the fourth start_service call has
\* returned, and by nothing else (not by a start_service call on its own and
\* not by a restart).
C26_OneMonitor ==
    /\ [](monitors <= 1)
    /\ [][monitors' # monitors =>
             /\ monitors = 0
             /\ monitors' = 1
             /\ pc[Starter] = "monitor"
             /\ pc'[Starter] = "done"
             /\ DOMAIN services = Roles
             /\ nextPid = Cardinality(Roles) + 1]_vars

\* the monitoring task runs and a role has been relaunched by the
\* restart_service command
C26_Witness ==
    /\ monitors = 1
    /\ pc[Starter] = "done"
    /\ \E t \in Operators : ret[t].msg = "service restarted successfully"
    /\ nextPid > 5

\* C30: the guard flag, once set by a stop_all_services call, is never
\* cleared, and every stop_all_services call made while it is set returns at
\* once without touching the registry, the status table or any process, even
\* when the registry holds the handle of a role relaunched after the shutdown.
C30_FlagStaysSet ==
    [][/\ shutdown_in_progress => shutdown_in_progress'
       /\ \A t \in Stoppers :
             (pc[t] = "idle" /\ pc'[t] # "idle" /\ shutdown_in_progress) =>
                 /\ pc'[t] = "done"
                 /\ ret'[t].log = "Shutdown already in progress"
                 /\ UNCHANGED << processes, services, alive, stopLog, procLock >>]_vars

\* one stop_all_services call has completed the teardown, the other has
\* returned as a no-op, the flag is set and the registry holds the handle of a
\* role that the restart_service command relaunched
C30_Witness ==
    \E t1, t2 \in Stoppers :
        /\ pc[t1] = "done" /\ ret[t1].log = "Enhanced shutdown sequence completed"
        /\ SkippedTeardown(t2)
        /\ shutdown_in_progress
        /\ \E r \in DOMAIN processes \cap DOMAIN services :
              /\ processes[r] \in alive
              /\ services[r].status = "starting"
              /\ services[r].pid = processes[r]

\* C24: every teardown path takes a role's handle out of the registry in the
\* critical section in which it requests the termination, so a process is
\* terminated by one operation only: a handle is in one place at a time, a
\* handle of the registry has not been terminated by anyone, and a step
\* terminates only a process whose handle it removes from the registry.
C24_RemoveThenKill ==
    /\ [](/\ \A r \in DOMAIN processes : processes[r] \in alive
          /\ \A r1, r2 \in DOMAIN processes : processes[r1] = processes[r2] => r1 = r2)
    /\ [][\A p \in alive \ alive' :
             \E r \in DOMAIN processes :
                 /\ processes[r] = p
                 /\ r \notin DOMAIN processes' \/ processes'[r] # p]_vars

\* the restart_service command has terminated the process of a role that
\* stop_all_services afterwards found without a handle, and stop_all_services
\* has terminated another one
C24_Witness ==
    /\ \E t \in Operators : pc[t] \in {"spawn", "store", "status"} /\ arg[t] \notin DOMAIN processes
    /\ \E t \in Stoppers : pc[t] \in TeardownPcs
    /\ \E i \in 1..Len(stopLog) : stopLog[i].pid \notin alive
    /\ Len(stopLog) < nextPid - 1 - Cardinality(alive)

\* process p is referenced by the registry or by the handle a thread holds
\* between its spawn and its insert
C29_Tracked(p) ==
    \/ \E r \in DOMAIN processes : processes[r] = p
    \/ \E t \in Threads : cmd[t] = p

\* C29: every process that was spawned and not terminated is referenced by
\* the registry (or by the operation that holds its handle), so that two
\* concurrent restarts of one role never leave a running process the
\* registry does not track.
C29_NoUntrackedProcess == \A p \in alive : C29_Tracked(p)

\* ---------------------------------------------------------------------- C22
\* where a thread is while it executes the teardown of stop_all_services
C22_InTeardown(t) ==
    pc[t] \in {"graceful", "gse_poll", "gse_lock", "gse_status", "sweep", "final",
               "final_status"}

\* C22: the executing stop_all call always eventually completes: for each
\* worker the graceful wait makes at most 15 polls, after the wait the worker's
\* process has exited or has been force-killed and reaped, and the call never
\* stays in the teardown for ever (which it leaves only by returning),
\* whatever restart requests interleave with it.
C22_StopAllCompletes ==
    /\ [](\A t \in Stoppers :
            /\ polls[t] <= GracePolls
            /\ pc[t] \in {"gse_lock", "gse_status"} => cmd[t] \notin alive)
    /\ []<>(~C22_InTeardown("stop1"))

\* a worker that did not exit in fifteen polls, about to be force-killed
C22_Witness ==
    \E t \in Stoppers :
        /\ pc[t] = "gse_poll"
        /\ polls[t] = GracePolls
        /\ cmd[t] \in alive

\* ---------------------------------------------------------------------- C25
\* thread t holds the registry lock and the status lock
C25_HoldsBoth(t) == procLock = t /\ svcLock = t

\* C25: no code path holds the Process Registry lock and the Status Table
\* lock at the same time across a suspension point: a thread holds both only
\* between locking the status table and the return of graceful_stop_service,
\* graceful_stop_service_enhanced or stop_all_services, where it writes the
\* records and nothing else; at every sleep and every wait for a process exit
\* it holds the registry lock alone, and its next step after it holds both
\* releases both.
C25_NoBothLocksSuspended ==
    /\ [](\A t \in Threads :
            /\ C25_HoldsBoth(t) => pc[t] \in {"gse_status", "final_status"}
            /\ pc[t] \in {"gse_poll", "gse_lock", "rc_stopped", "sweep", "final"}
                   => svcLock # t)
    /\ [][\A t \in Threads :
            C25_HoldsBoth(t) /\ pc'[t] # pc[t] => procLock' # t /\ svcLock' # t]_vars

\* a thread between two polls of the worker it stops, holding the registry lock
\* and not the status lock, while a restart waits for the registry lock
C25_Witness ==
    \E t \in Stoppers, u \in Coordinators :
        /\ pc[t] = "gse_poll"
        /\ polls[t] >= 1
        /\ procLock = t
        /\ svcLock # t
        /\ pc[u] = "rc_stop"

\* ---------------------------------------------------------------------- C28
\* the positions at which a thread asks for the registry lock
C28_RegistryRequests == {"graceful", "sweep", "rc_stop", "store", "op_stop"}

\* the positions at which a thread asks for the status lock
C28_StatusRequests ==
    {"graceful_status", "gse_lock", "final", "rc_stopped", "status", "stats"}

\* C28: the system is deadlock-free: no step takes the registry lock for a
\* thread that holds the status lock, so a thread that holds both took the
\* registry lock first; and under fair scheduling every thread that stands at
\* a lock request of start_service, restart_service_with_backoff or
\* stop_all_services gets past it: again and again both locks are free and no
\* thread stands at a request.
C28_DeadlockFree ==
    /\ [][\A t \in Threads :
            /\ procLock' = t /\ procLock # t => svcLock # t /\ svcLock' # t
            /\ svcLock' = t /\ svcLock # t => procLock = t]_vars
    /\ []<>(/\ procLock = "free"
            /\ svcLock = "free"
            /\ \A t \in Threads :
                  pc[t] \notin C28_RegistryRequests \cup C28_StatusRequests)

\* stop_all_services holds the registry lock and stands before the lock of the
\* status table while a restart stands before the lock of the registry
C28_Witness ==
    \E t \in Stoppers, u \in Coordinators :
        /\ pc[t] = "final"
        /\ procLock = t
        /\ pc[u] \in C28_RegistryRequests

\* ---------------------------------------------------------------------- C27
\* C27: the Health Monitor begins in the startup phase with the 5 s interval,
\* switches to the 30 s interval once the accumulated startup intervals reach
\* 60 s, which is at the wake of the 12th cycle, and never returns to the
\* startup phase afterwards, whatever is restarted.
C27_Cadence ==
    /\ [](/\ mon.startup_phase <=> cycles < 12
          /\ mon.startup_phase <=> mon.startup_elapsed < 60
          /\ mon.startup_elapsed = 5 * Min(cycles, 12)
          /\ ProbeInterval(mon) = IF cycles < 12 THEN 5 ELSE 30)
    /\ [][~mon.startup_phase => ~mon'.startup_phase]_vars

\* the monitor in steady state after its 13th cycle, a worker that was
\* restarted by command probed again and running
C27_Witness ==
    /\ cycles >= 13
    /\ mon.pc = "sleep"
    /\ ~mon.startup_phase
    /\ \E t \in Operators :
         /\ pc[t] = "idle"
         /\ ret[t].msg = "service restarted successfully"
         /\ ret[t].name \in DOMAIN services
         /\ services[ret[t].name].status = "running"
         /\ services[ret[t].name].restart_count = 0

\* ---------------------------------------------------------------------- C31
\* the monitor writes the result of a probe whose target record has since been
\* replaced or stopped: the record's process is not the one that was probed
C31_StaleResult ==
    /\ mon.pc = "write"
    /\ mon'.pc = "next"
    /\ mon.name \in DOMAIN services
    /\ services[mon.name].pid # mon.probed

\* C31: a probe result is applied only to the process instance that was
\* probed: when the role was relaunched or stopped between the sending of the
\* probe and the write of its result, the write leaves the phase of the role's
\* record as it is.
C31_ResultForProbedInstance ==
    [][C31_StaleResult =>
          services'[mon.name].status = services[mon.name].status]_vars

\* ---------------------------------------------------------------------- C32
\* C32: in every reachable state a role whose phase is Running has no
\* error_message and a role whose phase is Error has one, so no health
\* snapshot shows a Running role with an error text or an Error role without.
C32_MessageMatchesPhase ==
    \A r \in DOMAIN services :
        /\ services[r].status = "running" => services[r].error_message = NoMsg
        /\ services[r].status = "error" => services[r].error_message # NoMsg

\* one role in Error with its message beside a role that a probe found Running
C32_Witness ==
    \E r, q \in DOMAIN services :
        /\ services[r].status = "error"
        /\ services[r].error_message # NoMsg
        /\ services[q].status = "running"
        /\ services[q].last_health_check # None

\* ---------------------------------------------------------------------- C33
\* the step writes the phase or the last_health_check of role r's record
C33_Rewrites(r) ==
    \/ services'[r].status # services[r].status
    \/ services'[r].last_health_check # services[r].last_health_check

\* no stop and no restart has been requested
C33_Untouched == commands = 0 /\ calls = 0 /\ ~shutdown_in_progress

\* C33: the Health Monitor is started only when all four spawns of start_all
\* succeeded: a monitoring task exists only after start_all returned success
\* with all four records written; after a start_all that failed, no monitoring
\* task exists and no cycle runs, the workers already launched are in phase
\* Starting with last_health_check unset as long as no stop or restart was
\* requested,
\* and only a step of a stop or restart operation writes either field.
C33_MonitorOnlyAfterFullStart ==
    /\ []((monitors >= 1 \/ mon.pc # "off" \/ cycles >= 1) =>
             /\ pc[Starter] = "done"
             /\ ret[Starter].kind = "ok"
             /\ DOMAIN services = Roles)
    /\ []((pc[Starter] = "failed" /\ C33_Untouched) =>
             \A r \in DOMAIN services :
                /\ services[r].status = "starting"
                /\ services[r].last_health_check = None)
    /\ [][pc[Starter] = "failed" =>
             \A r \in DOMAIN services \cap DOMAIN services' :
                C33_Rewrites(r) => \E t \in Threads \ {Starter} : pc[t] # "idle"]_vars

\* start_all failed at the spawn of core: alden and vault are launched and
\* recorded, a restart_service command has run, and there is no monitoring task
C33_Witness ==
    /\ pc[Starter] = "failed"
    /\ DOMAIN services \cap {"alden", "vault", "core"} = {"alden", "vault"}
    /\ commands >= 1
    /\ \A t \in Operators : pc[t] = "idle"
    /\ monitors = 0
    /\ \A r \in {"alden", "vault"} : services[r].status = "starting"

\* ---------------------------------------------------------------------- C34
\* the step is one of the monitoring task
C34_MonitorStep == mon.pc # "off" /\ mon' # mon

\* C34: every step of the Health Monitor changes only phase, error_message,
\* last_health_check, restart_count and restart_backoff of existing status
\* records: it leaves the Process Registry and the processes alone, adds and
\* removes no record, and keeps every record's name, process id, port,
\* health-check URL, started_at and last_restart.
C34_MonitorFrame ==
    [][C34_MonitorStep =>
          /\ processes' = processes
          /\ alive' = alive
          /\ nextPid' = nextPid
          /\ DOMAIN services' = DOMAIN services
          /\ \A r \in DOMAIN services :
                services'[r] =
                    [services[r] EXCEPT
                        !.status = services'[r].status,
                        !.error_message = services'[r].error_message,
                        !.last_health_check = services'[r].last_health_check,
                        !.restart_count = services'[r].restart_count,
                        !.restart_backoff = services'[r].restart_backoff]]_vars

\* the monitor has written a failure for one role and a success for another,
\* in the middle of a cycle; both records keep their process ids
C34_Witness ==
    /\ mon.pc = "next"
    /\ mon.names # {}
    /\ \E r, q \in DOMAIN services \cap DOMAIN processes :
          /\ services[r].status = "error"
          /\ services[r].last_health_check # None
          /\ services[r].pid = processes[r]
          /\ services[q].status = "running"
          /\ services[q].last_health_check # None
          /\ services[q].pid = processes[q]

\* ---------------------------------------------------------------------- C35
\* thread t enters the restart_service command or restart_service_with_backoff
C35_Called(t) ==
    /\ pc[t] = "idle"
    /\ IF t \in Operators THEN commands' = commands + 1 ELSE calls' = calls + 1

\* the service name of the request that t has just made
C35_Requested(t) == IF pc'[t] = "idle" THEN ret'[t].name ELSE arg'[t]

\* the request has returned and nothing was stopped, spawned or written
C35_NothingDone(t) ==
    /\ pc'[t] = "idle"
    /\ processes' = processes
    /\ services' = services
    /\ alive' = alive
    /\ nextPid' = nextPid

====
